---- MODULE Spec2Model ----
(***************************************************************************)
(* finance_tracker: the tolerant CSV load / normalise / save pipeline of   *)
(* src/src/utils.py and the append path of src/src/add_expense.py.         *)
(*                                                                         *)
(* Text is a sequence of one-character strings, a file is its bytes, and   *)
(* the csv module's writer and reader are modelled character by character. *)
(* Library calls follow the Python documentation: strftime's %Y is the     *)
(* zero-padded four-digit year, float() accepts nan/inf, DictReader fills  *)
(* the cells a short row lacks with None.                                   *)
(***************************************************************************)
EXTENDS Integers, Sequences, FiniteSets, TLC

\* fs:   the files, path -> [exists, data]
\* ret:  the list the last operation returned (empty when it returned none)
\* last: the last operation, its arguments and what it found
\* arg, out: the text given to a field parser and what it returned
VARIABLES fs, ret, last, arg, out

vars == <<fs, ret, last, arg, out>>

--------------------------------------------------------------------------
(* Text helpers: str.strip, str.lower, str.replace, str.split             *)

Digits == <<"0", "1", "2", "3", "4", "5", "6", "7", "8", "9">>

UpperLetters == <<"A", "B", "C", "D", "E", "F", "G", "H", "I", "J", "K", "L", "M",
                  "N", "O", "P", "Q", "R", "S", "T", "U", "V", "W", "X", "Y", "Z">>

LowerLetters == <<"a", "b", "c", "d", "e", "f", "g", "h", "i", "j", "k", "l", "m",
                  "n", "o", "p", "q", "r", "s", "t", "u", "v", "w", "x", "y", "z">>

Whitespace == {" ", "\t", "\n", "\r"}

IsDigit(c) == \E i \in 1..Len(Digits) : Digits[i] = c

DigitVal(c) == (CHOOSE i \in 1..Len(Digits) : Digits[i] = c) - 1

AllDigits(s) == \A i \in 1..Len(s) : IsDigit(s[i])

RECURSIVE IntOf(_)
IntOf(s) == IF s = <<>> THEN 0
            ELSE 10 * IntOf(SubSeq(s, 1, Len(s) - 1)) + DigitVal(s[Len(s)])

RECURSIVE NatText(_)
NatText(n) == IF n < 10 THEN <<Digits[n + 1]>>
              ELSE NatText(n \div 10) \o <<Digits[(n % 10) + 1]>>

RECURSIVE Pad(_, _)
Pad(s, w) == IF Len(s) >= w THEN s ELSE Pad(<<"0">> \o s, w)

LowerChar(c) == IF \E i \in 1..Len(UpperLetters) : UpperLetters[i] = c
                THEN LowerLetters[CHOOSE i \in 1..Len(UpperLetters) : UpperLetters[i] = c]
                ELSE c

Lower(s) == [i \in 1..Len(s) |-> LowerChar(s[i])]

RECURSIVE LStrip(_)
LStrip(s) == IF s # <<>> /\ s[1] \in Whitespace THEN LStrip(Tail(s)) ELSE s

RECURSIVE RStrip(_)
RStrip(s) == IF s # <<>> /\ s[Len(s)] \in Whitespace
             THEN RStrip(SubSeq(s, 1, Len(s) - 1)) ELSE s

Strip(s) == RStrip(LStrip(s))

\* s.replace(c, "")
Remove(s, c) == SelectSeq(s, LAMBDA ch : ch # c)

\* s.split(c): the pieces between the occurrences of c
RECURSIVE Split(_, _)
Split(s, c) ==
  IF \A i \in 1..Len(s) : s[i] # c THEN <<s>>
  ELSE LET k == CHOOSE i \in 1..Len(s) : s[i] = c /\ \A j \in 1..(i - 1) : s[j] # c
       IN  <<SubSeq(s, 1, k - 1)>> \o Split(SubSeq(s, k + 1, Len(s)), c)

NoValue == [some |-> FALSE, v |-> <<>>]

Some(x) == [some |-> TRUE, v |-> x]

--------------------------------------------------------------------------
(* datetime: strptime, fromisoformat, strftime                             *)

IsLeap(y) == (y % 4 = 0 /\ y % 100 # 0) \/ y % 400 = 0

DaysInMonth(y, m) == IF m = 2 THEN (IF IsLeap(y) THEN 29 ELSE 28)
                     ELSE IF m \in {4, 6, 9, 11} THEN 30 ELSE 31

\* datetime(y, m, d) raises ValueError outside these ranges
ValidDate(y, m, d) == /\ y \in 1..9999
                      /\ m \in 1..12
                      /\ d \in 1..DaysInMonth(y, m)

\* %Y: exactly four digits
YearTok(t) == Len(t) = 4 /\ AllDigits(t)

\* %m: 1[0-2] | 0[1-9] | [1-9]
MonthTok(t) == /\ Len(t) \in {1, 2}
               /\ AllDigits(t)
               /\ IntOf(t) \in 1..12

\* %d: 3[01] | [12]\d | 0[1-9] | [1-9] | " "[1-9]
DayTok(t) == \/ Len(t) \in {1, 2} /\ AllDigits(t) /\ IntOf(t) \in 1..31
             \/ Len(t) = 2 /\ t[1] = " " /\ IsDigit(t[2]) /\ t[2] # "0"

DayVal(t) == IF t[1] = " " THEN DigitVal(t[2]) ELSE IntOf(t)

\* strftime("%Y-%m-%d")
strftime(y, m, d) == Pad(NatText(y), 4) \o <<"-">> \o Pad(NatText(m), 2)
                       \o <<"-">> \o Pad(NatText(d), 2)

\* datetime.strptime(v, fmt) for the three formats of _parse_date, then strftime;
\* NoValue stands for the ValueError
strptime(v, fmt) ==
  LET sep == IF fmt = "%Y-%m-%d" THEN "-" ELSE "/"
      p   == Split(v, sep)
      yt  == IF fmt = "%Y-%m-%d" THEN p[1] ELSE p[3]
      mt  == IF fmt = "%d/%m/%Y" THEN p[2] ELSE IF fmt = "%m/%d/%Y" THEN p[1] ELSE p[2]
      dt  == IF fmt = "%d/%m/%Y" THEN p[1] ELSE IF fmt = "%m/%d/%Y" THEN p[2] ELSE p[3]
  IN  IF Len(p) # 3 THEN NoValue
      ELSE IF ~(YearTok(yt) /\ MonthTok(mt) /\ DayTok(dt)) THEN NoValue
      ELSE IF ~ValidDate(IntOf(yt), IntOf(mt), DayVal(dt)) THEN NoValue
      ELSE Some(strftime(IntOf(yt), IntOf(mt), DayVal(dt)))

\* HH:MM:SS of an ISO timestamp
IsoTime(t) == /\ Len(t) = 8
              /\ t[3] = ":" /\ t[6] = ":"
              /\ AllDigits(SubSeq(t, 1, 2)) /\ IntOf(SubSeq(t, 1, 2)) \in 0..23
              /\ AllDigits(SubSeq(t, 4, 5)) /\ IntOf(SubSeq(t, 4, 5)) \in 0..59
              /\ AllDigits(SubSeq(t, 7, 8)) /\ IntOf(SubSeq(t, 7, 8)) \in 0..59

\* datetime.fromisoformat(v) then strftime: the forms YYYY-MM-DD and YYYYMMDD,
\* alone or followed by one separator character and HH:MM:SS. The week forms,
\* fractions of a second and offsets are outside the texts drawn here.
fromisoformat(v) ==
  LET dashed == Len(v) >= 10 /\ v[5] = "-" /\ v[8] = "-"
      dlen   == IF dashed THEN 10 ELSE 8
      yt     == SubSeq(v, 1, 4)
      mt     == IF dashed THEN SubSeq(v, 6, 7) ELSE SubSeq(v, 5, 6)
      dt     == IF dashed THEN SubSeq(v, 9, 10) ELSE SubSeq(v, 7, 8)
      rest   == SubSeq(v, dlen + 1, Len(v))
  IN  IF Len(v) < 8 THEN NoValue
      ELSE IF ~(AllDigits(yt) /\ AllDigits(mt) /\ AllDigits(dt)) THEN NoValue
      ELSE IF ~ValidDate(IntOf(yt), IntOf(mt), IntOf(dt)) THEN NoValue
      ELSE IF rest # <<>> /\ ~(Len(rest) = 9 /\ IsoTime(Tail(rest))) THEN NoValue
      ELSE Some(strftime(IntOf(yt), IntOf(mt), IntOf(dt)))

\* Mutant: month/day tried before day/month
DateFormatsMonthFirst == <<"%Y-%m-%d", "%m/%d/%Y", "%d/%m/%Y">>

\* The formats in the order _parse_date tries them
DateFormats == <<"%Y-%m-%d", "%d/%m/%Y", "%m/%d/%Y">>

RECURSIVE TryFormats(_, _)
TryFormats(v, fmts) ==
  IF fmts = <<>> THEN fromisoformat(Remove(v, "Z"))
  ELSE IF strptime(v, Head(fmts)).some THEN strptime(v, Head(fmts))
  ELSE TryFormats(v, Tail(fmts))

_parse_date(value) ==
  LET v == Strip(value)
  IN  IF v = <<>> THEN NoValue ELSE TryFormats(v, DateFormats)

--------------------------------------------------------------------------
(* float(), round(x, 2), format(x, ".2f")                                  *)

\* A float: nan, +-inf, or the finite decimal (-1)^neg * n / 10^e
Float(k, neg, n, e) == [k |-> k, neg |-> neg, n |-> n, e |-> e]

RECURSIVE Pow10(_)
Pow10(e) == IF e = 0 THEN 1 ELSE 10 * Pow10(e - 1)

\* float(v): optional sign, then nan / inf / infinity in any case, or digits
\* with an optional point. Exponents and digit-group underscores are outside
\* the texts drawn here. NoValue stands for the ValueError.
float(v) ==
  LET s    == Strip(v)
      sgn  == s # <<>> /\ s[1] \in {"+", "-"}
      neg  == s # <<>> /\ s[1] = "-"
      body == IF sgn THEN Tail(s) ELSE s
      word == Lower(body)
      p    == Split(body, ".")
  IN  IF word = <<"n", "a", "n">> THEN Some(Float("nan", FALSE, 0, 0))
      ELSE IF word \in {<<"i", "n", "f">>, <<"i", "n", "f", "i", "n", "i", "t", "y">>}
           THEN Some(Float("inf", neg, 0, 0))
      ELSE IF Len(p) = 1 /\ p[1] # <<>> /\ AllDigits(p[1])
           THEN Some(Float("fin", neg, IntOf(p[1]), 0))
      ELSE IF Len(p) = 2 /\ AllDigits(p[1]) /\ AllDigits(p[2]) /\ p[1] \o p[2] # <<>>
           THEN Some(Float("fin", neg, IntOf(p[1] \o p[2]), Len(p[2])))
      ELSE NoValue

\* amt <= 0: false for nan and +inf
LeqZero(x) == \/ x.k = "fin" /\ (x.n = 0 \/ x.neg)
              \/ x.k = "inf" /\ x.neg

\* n / 10^e to the nearest hundredth; an exact half goes to the even neighbour
RoundCents(n, e) ==
  IF e <= 2 THEN n * Pow10(2 - e)
  ELSE LET d == Pow10(e - 2)
           q == n \div d
           r == n % d
       IN  IF 2 * r < d THEN q
           ELSE IF 2 * r > d THEN q + 1
           ELSE IF q % 2 = 0 THEN q ELSE q + 1

\* round(x, 2): a float again, now a whole number of hundredths
round2(x) == IF x.k = "fin" THEN Float("fin", x.neg, RoundCents(x.n, x.e), 2) ELSE x

\* f"{x:.2f}"
format2f(x) ==
  LET c == RoundCents(x.n, x.e)
  IN  IF x.k = "nan" THEN <<"n", "a", "n">>
      ELSE (IF x.neg THEN <<"-">> ELSE <<>>) \o
           (IF x.k = "inf" THEN <<"i", "n", "f">>
            ELSE NatText(c \div 100) \o <<".">> \o Pad(NatText(c % 100), 2))

_parse_amount(value) ==
  LET v   == Remove(Remove(Strip(value), "$"), ",")
      amt == float(v)
  IN  IF v = <<>> THEN NoValue
      ELSE IF ~amt.some THEN NoValue
      ELSE IF LeqZero(amt.v) THEN NoValue
      ELSE Some(round2(amt.v))

--------------------------------------------------------------------------
(* Column names                                                            *)

DateCol == <<"d", "a", "t", "e">>

AmountCol == <<"a", "m", "o", "u", "n", "t">>

CategoryCol == <<"c", "a", "t", "e", "g", "o", "r", "y">>

DescriptionCol == <<"d", "e", "s", "c", "r", "i", "p", "t", "i", "o", "n">>

STANDARD_COLUMNS == <<DateCol, AmountCol, CategoryCol, DescriptionCol>>

\* The synonym table of _standardize_col_name, as <<variant, standard>> pairs
mapping ==
    {<<<<"d", "a", "t", "e">>, DateCol>>,
     <<<<"t", "r", "a", "n", "s", "a", "c", "t", "i", "o", "n", " ", "d", "a", "t", "e">>, DateCol>>,
     <<<<"t", "x", "n", " ", "d", "a", "t", "e">>, DateCol>>,
     <<<<"a", "m", "o", "u", "n", "t">>, AmountCol>>,
     <<<<"a", "m", "t">>, AmountCol>>,
     <<<<"v", "a", "l", "u", "e">>, AmountCol>>,
     <<<<"d", "e", "b", "i", "t">>, AmountCol>>,
     <<<<"c", "a", "t", "e", "g", "o", "r", "y">>, CategoryCol>>,
     <<<<"t", "y", "p", "e">>, CategoryCol>>,
     <<<<"d", "e", "s", "c", "r", "i", "p", "t", "i", "o", "n">>, DescriptionCol>>,
     <<<<"d", "e", "s", "c">>, DescriptionCol>>,
     <<<<"m", "e", "r", "c", "h", "a", "n", "t">>, DescriptionCol>>,
     <<<<"n", "a", "r", "r", "a", "t", "i", "o", "n">>, DescriptionCol>>,
     <<<<"d", "e", "t", "a", "i", "l", "s">>, DescriptionCol>>,
     <<<<"n", "o", "t", "e", "s">>, DescriptionCol>>}

\* Mutant: the name is trimmed but not lower-cased
standardize_without_lower(col) ==
  LET c == Strip(col)
  IN  IF \E m \in mapping : m[1] = c
      THEN (CHOOSE m \in mapping : m[1] = c)[2]
      ELSE c

_standardize_col_name(col) ==
  LET c == Lower(Strip(col))
  IN  IF \E m \in mapping : m[1] = c
      THEN (CHOOSE m \in mapping : m[1] = c)[2]
      ELSE c

--------------------------------------------------------------------------
(* csv.writer and csv.reader, excel dialect, on files opened with newline="" *)

\* QUOTE_MINIMAL: a field holding the delimiter, the quote character or a
\* character of the line terminator is quoted, its quotes doubled
NeedsQuote(f) == \E i \in 1..Len(f) : f[i] \in {",", "\"", "\r", "\n"}

RECURSIVE DoubleQuotes(_)
DoubleQuotes(f) ==
  IF f = <<>> THEN <<>>
  ELSE (IF Head(f) = "\"" THEN <<"\"", "\"">> ELSE <<Head(f)>>) \o DoubleQuotes(Tail(f))

WriteField(f) == IF NeedsQuote(f) THEN <<"\"">> \o DoubleQuotes(f) \o <<"\"">> ELSE f

RECURSIVE JoinFields(_)
JoinFields(row) ==
  IF Len(row) = 1 THEN WriteField(row[1])
  ELSE WriteField(Head(row)) \o <<",">> \o JoinFields(Tail(row))

\* writer.writerow(row), for a row of two or more fields
writerow(row) == JoinFields(row) \o <<"\r", "\n">>

\* The end of a line as the reader sees it: newline="" keeps "\n", "\r" and
\* "\r\n" in the text and ends a line after each, and after the last character
EOL == "EOL"

LineEndsAt(d, i) == \/ i = Len(d)
                    \/ d[i] = "\n"
                    \/ d[i] = "\r" /\ d[i + 1] # "\n"

ReaderStart == [state |-> "START_RECORD", field |-> <<>>, fields |-> <<>>, rows |-> <<>>]

SaveField(st, next) ==
  [st EXCEPT !.state = next, !.fields = Append(@, st.field), !.field = <<>>]

AddChar(st, c, next) == [st EXCEPT !.state = next, !.field = Append(@, c)]

AfterNewline(c) == IF c = EOL THEN "START_RECORD" ELSE "EAT_CRNL"

\* parse_process_char of the csv module (no escape character, not strict)
ProcessChar(st, c) ==
  LET nl == c \in {"\n", "\r", EOL}
  IN  CASE st.state = "START_RECORD" /\ c \in {"\n", "\r"} ->
             [st EXCEPT !.state = "EAT_CRNL"]
        [] st.state = "START_RECORD" /\ c = EOL -> st
        [] st.state \in {"START_RECORD", "START_FIELD"} /\ c \notin {"\n", "\r"} ->
             IF c = EOL THEN SaveField(st, "START_RECORD")
             ELSE IF c = "\"" THEN [st EXCEPT !.state = "IN_QUOTED_FIELD"]
             ELSE IF c = "," THEN SaveField(st, "START_FIELD")
             ELSE AddChar(st, c, "IN_FIELD")
        [] st.state = "START_FIELD" /\ c \in {"\n", "\r"} -> SaveField(st, "EAT_CRNL")
        [] st.state = "IN_FIELD" ->
             IF nl THEN SaveField(st, AfterNewline(c))
             ELSE IF c = "," THEN SaveField(st, "START_FIELD")
             ELSE AddChar(st, c, "IN_FIELD")
        [] st.state = "IN_QUOTED_FIELD" ->
             IF c = EOL THEN st
             ELSE IF c = "\"" THEN [st EXCEPT !.state = "QUOTE_IN_QUOTED_FIELD"]
             ELSE AddChar(st, c, "IN_QUOTED_FIELD")
        [] st.state = "QUOTE_IN_QUOTED_FIELD" ->
             IF c = "\"" THEN AddChar(st, c, "IN_QUOTED_FIELD")
             ELSE IF c = "," THEN SaveField(st, "START_FIELD")
             ELSE IF nl THEN SaveField(st, AfterNewline(c))
             ELSE AddChar(st, c, "IN_FIELD")
        [] st.state = "EAT_CRNL" ->
             IF c = EOL THEN [st EXCEPT !.state = "START_RECORD"]
             ELSE IF nl THEN st
             ELSE [st EXCEPT !.state = "ERROR"]
        [] st.state = "ERROR" -> st

\* Reader_iternext returns the fields once a line leaves it in START_RECORD
EmitRow(st, c) ==
  IF c = EOL /\ st.state = "START_RECORD"
  THEN [st EXCEPT !.rows = Append(@, st.fields), !.fields = <<>>]
  ELSE st

\* One character of the file, and the end of its line when it ends one
ReadChar(st, d, i) ==
  LET s1 == EmitRow(ProcessChar(st, d[i]), d[i])
  IN  IF LineEndsAt(d, i) THEN EmitRow(ProcessChar(s1, EOL), EOL) ELSE s1

\* The characters d[lo..hi] in order, up to the first the reader refuses
\* ("new-line character seen in unquoted field")
RECURSIVE ReadChars(_, _, _, _)
ReadChars(st, d, lo, hi) ==
  IF lo > hi THEN st
  ELSE IF lo = hi THEN ReadChar(st, d, lo)
  ELSE LET mid == (lo + hi) \div 2
           s1  == ReadChars(st, d, lo, mid)
       IN  IF s1.state = "ERROR" THEN s1 ELSE ReadChars(s1, d, mid + 1, hi)

\* list(csv.reader(f)): at the end of the file an open quoted field is closed
reader(data) ==
  LET st == ReadChars(ReaderStart, data, 1, Len(data))
  IN  IF st.state = "IN_QUOTED_FIELD" THEN Append(st.rows, Append(st.fields, st.field))
      ELSE st.rows

--------------------------------------------------------------------------
(* csv.DictReader rows and the lookups of load_expenses                    *)

NoneText == <<"N", "o", "n", "e">>

\* A looked-up cell: text, or Python's None
Cell(t) == [none |-> FALSE, t |-> t]

NoneCell == [none |-> TRUE, t |-> <<>>]

\* str(x)
str(x) == IF x.none THEN NoneText ELSE x.t

\* field_map.get(name, ""): the dict comprehension keeps the last header that
\* standardises to name
FieldMapGet(fieldnames, name) ==
  LET hits == {i \in 1..Len(fieldnames) : _standardize_col_name(fieldnames[i]) = name}
  IN  IF hits = {} THEN <<>>
      ELSE fieldnames[CHOOSE i \in hits : \A j \in hits : j <= i]

\* row.get(key, "") on the dict DictReader builds: dict(zip(fieldnames, row)),
\* then restval None for the fieldnames beyond the row's cells
RowGet(fieldnames, row, key) ==
  LET hits == {i \in 1..Len(fieldnames) : fieldnames[i] = key}
      k    == CHOOSE i \in hits : \A j \in hits : j <= i
  IN  IF hits = {} THEN Cell(<<>>)
      ELSE IF k <= Len(row) THEN Cell(row[k])
      ELSE NoneCell

Expense(date, amount, category, description) ==
  [date |-> date, amount |-> amount, category |-> category, description |-> description]

\* One pass of the loop of load_expenses: the Expense of a row, or NoValue
CleanRow(fieldnames, row) ==
  LET raw_date     == RowGet(fieldnames, row, FieldMapGet(fieldnames, DateCol))
      raw_amount   == RowGet(fieldnames, row, FieldMapGet(fieldnames, AmountCol))
      raw_category == RowGet(fieldnames, row, FieldMapGet(fieldnames, CategoryCol))
      raw_desc     == RowGet(fieldnames, row, FieldMapGet(fieldnames, DescriptionCol))
      date         == _parse_date(str(raw_date))
      amount       == _parse_amount(str(raw_amount))
      category     == Strip(str(raw_category))
      description  == Strip(str(raw_desc))
  IN  IF ~date.some \/ ~amount.some \/ category = <<>> \/ description = <<>>
      THEN NoValue
      ELSE Some(Expense(date.v, amount.v, category, description))

RECURSIVE CleanRows(_, _)
CleanRows(fieldnames, rows) ==
  IF rows = <<>> THEN <<>>
  ELSE LET e == CleanRow(fieldnames, Head(rows))
       IN  (IF Head(rows) # <<>> /\ e.some THEN <<e.v>> ELSE <<>>)
             \o CleanRows(fieldnames, Tail(rows))

--------------------------------------------------------------------------
(* The expense store: files are [exists, data]                             *)

Missing == [exists |-> FALSE, data |-> <<>>]

File(data) == [exists |-> TRUE, data |-> data]

\* Mutant: the header is written whatever the file holds
ensure_csv_header_always(f, path) ==
  [f EXCEPT ![path] = File(writerow(STANDARD_COLUMNS))]

\* utils.ensure_csv_header
ensure_csv_header(f, path) ==
  IF ~f[path].exists \/ Len(f[path].data) = 0
  THEN [f EXCEPT ![path] = File(writerow(STANDARD_COLUMNS))]
  ELSE f

\* What load_expenses returns for a file's bytes
Cleaned(data) ==
  LET rows == reader(data)
  IN  IF rows = <<>> \/ rows[1] = <<>> THEN <<>>
      ELSE CleanRows(rows[1], Tail(rows))

\* load_expenses(path): the files afterwards and the list returned
load_expenses(f, path) ==
  LET g == ensure_csv_header(f, path)
  IN  [fs |-> g, ret |-> Cleaned(g[path].data)]

RECURSIVE ExpenseRows(_)
ExpenseRows(expenses) ==
  IF expenses = <<>> THEN <<>>
  ELSE LET e == Head(expenses)
       IN  writerow(<<e.date, format2f(e.amount), e.category, e.description>>)
             \o ExpenseRows(Tail(expenses))

\* Mutant: the file is opened for appending
save_expenses_appending(f, expenses, path) ==
  [f EXCEPT ![path] = File(@.data \o writerow(STANDARD_COLUMNS) \o ExpenseRows(expenses))]

\* save_expenses(expenses, path)
save_expenses(f, expenses, path) ==
  [f EXCEPT ![path] = File(writerow(STANDARD_COLUMNS) \o ExpenseRows(expenses))]

\* export_clean_copy(source, target)
export_clean_copy(f, source, target) ==
  LET l == load_expenses(f, source)
  IN  save_expenses(l.fs, l.ret, target)

\* The header row add_expense.py writes
AddExpenseHeader == <<<<"D", "a", "t", "e">>, <<"A", "m", "o", "u", "n", "t">>, <<"C", "a", "t", "e", "g", "o", "r", "y">>, <<"D", "e", "s", "c", "r", "i", "p", "t", "i", "o", "n">>>>

\* add_expense.ensure_csv_header
add_ensure_csv_header(f, path) ==
  IF ~f[path].exists \/ Len(f[path].data) = 0
  THEN [f EXCEPT ![path] = File(writerow(AddExpenseHeader))]
  ELSE f

\* add_expense(date, amount, category, description) on DATA_FILE
add_expense(f, path, date, amount, category, description) ==
  LET g == add_ensure_csv_header(f, path)
  IN  [g EXCEPT ![path] =
         File(g[path].data \o writerow(<<date, format2f(amount), category, description>>))]

--------------------------------------------------------------------------
(* The store as a state machine                                            *)

\* DATA_FILE / DEFAULT_DATA_FILE, and a second path (the clean copy)
DATA_FILE == "data"

Paths == {DATA_FILE, "clean"}

\* Rows a file may hold before add_expense stops being called, and the
\* longest list given to save_expenses
MaxRows == 2

\* The data rows of a file
DataRows(f) == IF reader(f.data) = <<>> THEN <<>> ELSE Tail(reader(f.data))

\* Valid expenses: canonical date, positive amount in whole hundredths,
\* trimmed non-empty texts (with a comma, quotes, line breaks inside)
ValidExpenses ==
  { Expense(<<"2", "0", "2", "4", "-", "0", "1", "-", "0", "5">>, Float("fin", FALSE, 500, 2), <<"f", "o", "o", "d">>, <<"l", "u", "n", "c", "h">>),
    Expense(<<"2", "0", "2", "3", "-", "1", "2", "-", "3", "1">>, Float("fin", FALSE, 123450, 2), <<"a", ",", "b">>, <<"s", "a", "y", " ", "\"", "h", "i", "\"", "\r", "\n", "b", "y", "e">>) }

RECURSIVE SeqsUpTo(_, _)
SeqsUpTo(S, n) ==
  IF n = 0 THEN {<<>>}
  ELSE SeqsUpTo(S, n - 1) \cup {Append(q, x) : q \in {r \in SeqsUpTo(S, n - 1) : Len(r) = n - 1}, x \in S}

\* What the prompts of add_expense.py hand over: prompt_amount returns
\* float(raw) before its own checks, so any number
AddDates == {<<"2", "0", "2", "4", "-", "0", "1", "-", "0", "5">>}

AddAmounts == {Float("fin", FALSE, 125, 1), Float("fin", TRUE, 5, 0)}

AddCategories == {<<"f", "o", "o", "d">>}

AddDescriptions == {<<"l", "u", "n", "c", "h">>, <<"a", ",", "b">>}

Op(op, path, target, pre, saved) ==
  [op |-> op, path |-> path, target |-> target, pre |-> pre, saved |-> saved]

InitOp == Op("init", "", "", Missing, NoValue)

ParserIdle == arg = <<>> /\ out = NoValue

Init == /\ fs \in [Paths -> {Missing, File(<<>>)}]
        /\ ret = <<>>
        /\ last = InitOp
        /\ ParserIdle

EnsureHeader(p) ==
  /\ fs' = ensure_csv_header(fs, p)
  /\ last' = Op("ensure_csv_header", p, "", Missing, NoValue)
  /\ ret' = <<>>
  /\ UNCHANGED <<arg, out>>

\* last.pre: the file as load found it; last.saved: the list a save_expenses
\* call just before wrote to the same path
Load(p) ==
  /\ LET l == load_expenses(fs, p)
     IN  fs' = l.fs /\ ret' = l.ret
  /\ last' = Op("load", p, "", fs[p],
                IF last.op = "save" /\ last.path = p THEN last.saved ELSE NoValue)
  /\ UNCHANGED <<arg, out>>

Save(expenses, p) ==
  /\ fs' = save_expenses(fs, expenses, p)
  /\ last' = Op("save", p, "", Missing, Some(expenses))
  /\ ret' = <<>>
  /\ UNCHANGED <<arg, out>>

\* last.pre: the source file as export found it
Export(source, target) ==
  /\ fs' = export_clean_copy(fs, source, target)
  /\ last' = Op("export", source, target, fs[source], NoValue)
  /\ ret' = <<>>
  /\ UNCHANGED <<arg, out>>

AddExpense(date, amount, category, description) ==
  /\ Len(DataRows(fs[DATA_FILE])) < MaxRows
  /\ fs' = add_expense(fs, DATA_FILE, date, amount, category, description)
  /\ last' = Op("add_expense", DATA_FILE, "", Missing, NoValue)
  /\ ret' = <<>>
  /\ UNCHANGED <<arg, out>>

Next ==
  \/ \E p \in Paths : EnsureHeader(p)
  \/ \E p \in Paths : Load(p)
  \/ \E p \in Paths, es \in SeqsUpTo(ValidExpenses, MaxRows) : Save(es, p)
  \/ \E s \in Paths, t \in Paths : Export(s, t)
  \/ \E d \in AddDates, a \in AddAmounts, c \in AddCategories, ds \in AddDescriptions :
       AddExpense(d, a, c, ds)

Spec == Init /\ [][Next]_vars

--------------------------------------------------------------------------
(* Loading files that came from elsewhere                                  *)

\* Data rows an imported file may hold
MaxImportRows == 2

\* Header lines: canonical, synonyms in two spellings, no description column,
\* a column with an empty name, an unknown name, a blank name, another order
ImportHeaders ==
  { <<"d", "a", "t", "e", ",", "a", "m", "o", "u", "n", "t", ",", "c", "a", "t", "e", "g", "o", "r", "y", ",", "d", "e", "s", "c", "r", "i", "p", "t", "i", "o", "n">>,
    <<"T", "x", "n", " ", "D", "a", "t", "e", ",", "D", "e", "b", "i", "t", ",", "T", "y", "p", "e", ",", "M", "e", "r", "c", "h", "a", "n", "t">>,
    <<" ", "T", "X", "N", " ", "D", "A", "T", "E", " ", ",", "d", "e", "b", "i", "t", ",", " ", "T", "Y", "P", "E", " ", ",", "M", "E", "R", "C", "H", "A", "N", "T", " ">>,
    <<"d", "a", "t", "e", ",", "a", "m", "o", "u", "n", "t", ",", "c", "a", "t", "e", "g", "o", "r", "y">>,
    <<"d", "a", "t", "e", ",", "a", "m", "o", "u", "n", "t", ",", "c", "a", "t", "e", "g", "o", "r", "y", ",">>,
    <<"d", "a", "t", "e", ",", "a", "m", "o", "u", "n", "t", ",", "c", "a", "t", "e", "g", "o", "r", "y", ",", "m", "e", "m", "o">>,
    <<"d", "a", "t", "e", ",", "a", "m", "o", "u", "n", "t", ",", "c", "a", "t", "e", "g", "o", "r", "y", ",", " ">>,
    <<"d", "e", "s", "c", "r", "i", "p", "t", "i", "o", "n", ",", "c", "a", "t", "e", "g", "o", "r", "y", ",", "a", "m", "o", "u", "n", "t", ",", "d", "a", "t", "e">> }

\* Data lines: plain; quoted cells, a slash date, cells to trim; under half a
\* cent; nan; two cells; three cells; no such date; a blank line; a blank
\* description; the cells in the opposite order
ImportLines ==
  { <<"2", "0", "2", "4", "-", "0", "1", "-", "0", "5", ",", "5", ",", "f", "o", "o", "d", ",", "l", "u", "n", "c", "h">>,
    <<"0", "3", "/", "0", "4", "/", "2", "0", "2", "4", ",", "\"", "$", "1", ",", "2", "3", "4", ".", "5", "\"", ",", " ", "F", "o", "o", "d", " ", ",", "\"", "s", "a", "y", " ", "\"", "\"", "h", "i", "\"", "\"", "\"">>,
    <<"2", "0", "2", "4", "-", "0", "1", "-", "0", "5", ",", "0", ".", "0", "0", "1", ",", "f", "o", "o", "d", ",", "t", "i", "n", "y">>,
    <<"2", "0", "2", "4", "-", "0", "1", "-", "0", "5", ",", "n", "a", "n", ",", "f", "o", "o", "d", ",", "x">>,
    <<"2", "0", "2", "4", "-", "0", "1", "-", "0", "5", ",", "5">>,
    <<"2", "0", "2", "4", "-", "0", "1", "-", "0", "5", ",", "5", ",", "f", "o", "o", "d">>,
    <<"2", "0", "2", "4", "-", "1", "3", "-", "4", "0", ",", "5", ",", "f", "o", "o", "d", ",", "l", "u", "n", "c", "h">>,
    <<>>,
    <<"2", "0", "2", "4", "-", "0", "1", "-", "0", "5", ",", "7", ",", "f", "o", "o", "d", ",", " ">>,
    <<"l", "u", "n", "c", "h", ",", "f", "o", "o", "d", ",", "5", ",", "2", "0", "2", "4", "-", "0", "1", "-", "0", "5">> }

RECURSIVE JoinLines(_)
JoinLines(ls) == IF ls = <<>> THEN <<>> ELSE Head(ls) \o <<"\n">> \o JoinLines(Tail(ls))

ImportFiles ==
  {Missing, File(<<>>)} \cup
  {File(JoinLines(<<h>> \o ls)) : h \in ImportHeaders, ls \in SeqsUpTo(ImportLines, MaxImportRows)}

\* What the target of an export may hold beforehand
OldFiles == {File(<<"o", "l", "d", ",", "s", "t", "u", "f", "f", "\n", "1", ",", "2", "\n">>)}

InitLoad == /\ \E f \in ImportFiles, g \in OldFiles :
                 fs = [p \in Paths |-> IF p = DATA_FILE THEN f ELSE g]
            /\ ret = <<>>
            /\ last = InitOp
            /\ ParserIdle

\* One call on the files as found
LoadOnce(p) == last.op = "init" /\ Load(p)

ExportOnce(source, target) == last.op = "init" /\ Export(source, target)

NextLoad ==
  \/ \E p \in Paths : LoadOnce(p)
  \/ \E s \in Paths, t \in Paths : ExportOnce(s, t)

SpecLoad == InitLoad /\ [][NextLoad]_vars

--------------------------------------------------------------------------
(* The field parsers on their own                                          *)

\* Year, month and day digits the date texts are built from
DateTokens ==
  { <<"2", "0", "2", "4">>,
    <<"2", "0", "2", "3">>,
    <<"0", "3">>,
    <<"0", "4">>,
    <<"3">>,
    <<"1", "2">>,
    <<"1", "3">>,
    <<"2", "9">>,
    <<"0", "2">>,
    <<"3", "1">>,
    <<"4", "0">> }

\* Texts beside the three-token ones: empty, blank, padded with whitespace,
\* ISO timestamps, a compact date, words, a space-padded day
OtherDateTexts ==
  { <<>>,
    <<" ", "\t">>,
    <<" ", "2", "0", "2", "4", "-", "0", "1", "-", "0", "5", " ">>,
    <<"\t", "0", "3", "/", "0", "4", "/", "2", "0", "2", "4", "\n">>,
    <<"2", "0", "2", "4", "-", "0", "1", "-", "0", "5", "T", "1", "0", ":", "0", "0", ":", "0", "0", "Z">>,
    <<"2", "0", "2", "4", "-", "0", "1", "-", "0", "5", " ", "1", "0", ":", "0", "0", ":", "0", "0">>,
    <<"2", "0", "2", "4", "-", "0", "2", "-", "3", "0", "T", "1", "0", ":", "0", "0", ":", "0", "0">>,
    <<"2", "0", "2", "4", "0", "1", "0", "5">>,
    <<"N", "o", "n", "e">>,
    <<"a", "b", "c">>,
    <<"2", "0", "2", "4", "-", "0", "1", "-", " ", "5">>,
    <<"0", "3", "/", "0", "4", "/", "2", "0", "2", "4", "/">> }

DateTexts ==
  {a \o <<sep>> \o b \o <<sep>> \o c : a \in DateTokens, b \in DateTokens, c \in DateTokens,
                                       sep \in {"-", "/"}}
    \cup OtherDateTexts

InitDate == /\ fs = [p \in Paths |-> Missing]
            /\ ret = <<>>
            /\ last = InitOp
            /\ arg \in DateTexts
            /\ out = NoValue

ParseDate ==
  /\ last.op = "init"
  /\ out' = _parse_date(arg)
  /\ last' = Op("_parse_date", "", "", Missing, NoValue)
  /\ UNCHANGED <<fs, ret, arg>>

NextDate == ParseDate

SpecDate == InitDate /\ [][NextDate]_vars

\* Amount texts: lead \o whole part \o fraction \o tail, and words. The one
\* fraction halfway between two hundredths is .125, which a double holds
\* exactly; for any other the double nearest the text decides the rounding.
AmountLeads == { <<>>,
    <<"$">>,
    <<" ">>,
    <<"-">>,
    <<"+">>,
    <<"$", " ">>,
    <<"-", "$">> }

AmountWholes == { <<>>,
    <<"0">>,
    <<"5">>,
    <<"1", "2">>,
    <<"1", ",", "2", "3", "4">> }

AmountFractions == { <<>>,
    <<".">>,
    <<".", "5">>,
    <<".", "5", "0">>,
    <<".", "0", "0">>,
    <<".", "0", "0", "1">>,
    <<".", "0", "0", "4">>,
    <<".", "0", "0", "6">>,
    <<".", "1", "2", "5">> }

AmountTails == { <<>>,
    <<" ">> }

OtherAmountTexts ==
  { <<"n", "a", "n">>,
    <<"N", "a", "N">>,
    <<"i", "n", "f">>,
    <<"-", "i", "n", "f">>,
    <<"+", "I", "n", "f", "i", "n", "i", "t", "y">>,
    <<"$", "i", "n", "f">>,
    <<"a", "b", "c">>,
    <<"N", "o", "n", "e">>,
    <<"1", ".", "2", ".", "3">>,
    <<"5", "-">>,
    <<"$", ",">>,
    <<" ">> }

AmountTexts ==
  {l \o w \o f \o t : l \in AmountLeads, w \in AmountWholes, f \in AmountFractions,
                      t \in AmountTails}
    \cup OtherAmountTexts

InitAmount == /\ fs = [p \in Paths |-> Missing]
              /\ ret = <<>>
              /\ last = InitOp
              /\ arg \in AmountTexts
              /\ out = NoValue

ParseAmount ==
  /\ last.op = "init"
  /\ out' = _parse_amount(arg)
  /\ last' = Op("_parse_amount", "", "", Missing, NoValue)
  /\ UNCHANGED <<fs, ret, arg>>

NextAmount == ParseAmount

SpecAmount == InitAmount /\ [][NextAmount]_vars

--------------------------------------------------------------------------
(* Properties                                                              *)

HasContent(f) == f.exists /\ f.data # <<>>

\* YYYY-MM-DD naming a day of the calendar
IsCanonicalDate(t) ==
  /\ Len(t) = 10
  /\ t[5] = "-" /\ t[8] = "-"
  /\ AllDigits(SubSeq(t, 1, 4)) /\ AllDigits(SubSeq(t, 6, 7)) /\ AllDigits(SubSeq(t, 9, 10))
  /\ ValidDate(IntOf(SubSeq(t, 1, 4)), IntOf(SubSeq(t, 6, 7)), IntOf(SubSeq(t, 9, 10)))

IsTrimmedText(t) == t # <<>> /\ Strip(t) = t

\* Three runs of digits: one or two, one or two, four
SlashForm(p) ==
  /\ Len(p) = 3
  /\ \A i \in 1..3 : p[i] # <<>> /\ AllDigits(p[i])
  /\ Len(p[1]) <= 2 /\ Len(p[2]) <= 2 /\ Len(p[3]) = 4

\* Four digits, then one or two, then one or two
DashForm(p) ==
  /\ Len(p) = 3
  /\ \A i \in 1..3 : p[i] # <<>> /\ AllDigits(p[i])
  /\ Len(p[1]) = 4 /\ Len(p[2]) <= 2 /\ Len(p[3]) <= 2

\* Three runs of digits around one separator, in neither form
ThreeRuns(p) == Len(p) = 3 /\ \A i \in 1..3 : p[i] # <<>> /\ AllDigits(p[i])

\* The backing column of a canonical field in a header row: the last column
\* whose name standardises to it (0 when none does)
BackingColumn(fieldnames, name) ==
  LET hits == {i \in 1..Len(fieldnames) : _standardize_col_name(fieldnames[i]) = name}
  IN  IF hits = {} THEN 0 ELSE CHOOSE i \in hits : \A j \in hits : j <= i

\* Every canonical field has a backing column, and the row a non-blank cell in it
AllFieldsPresent(fieldnames, row) ==
  \A i \in 1..Len(STANDARD_COLUMNS) :
    LET k == BackingColumn(fieldnames, STANDARD_COLUMNS[i])
    IN  k # 0 /\ k <= Len(row) /\ Strip(row[k]) # <<>>

\* A row the data model accepts: every field present, the date a date, the
\* amount a finite number that is above zero once rounded
ValidRow(fieldnames, row) ==
  /\ AllFieldsPresent(fieldnames, row)
  /\ LET a == _parse_amount(row[BackingColumn(fieldnames, AmountCol)])
         d == _parse_date(row[BackingColumn(fieldnames, DateCol)])
     IN  d.some /\ a.some /\ a.v.k = "fin" /\ a.v.n > 0

\* The expenses of the valid rows of a file, in file order
ValidExpensesOf(f) ==
  LET rows == reader(f.data)
  IN  IF ~HasContent(f) \/ rows = <<>> \/ rows[1] = <<>> THEN <<>>
      ELSE CleanRows(rows[1], SelectSeq(Tail(rows), LAMBDA r : ValidRow(rows[1], r)))

CanonicalHeaderLine == <<"d", "a", "t", "e", ",", "a", "m", "o", "u", "n", "t", ",", "c", "a", "t", "e", "g", "o", "r", "y", ",", "d", "e", "s", "c", "r", "i", "p", "t", "i", "o", "n", "\r", "\n">>

\* C1: every Expense load_expenses returns has an amount above zero after
\* rounding to hundredths, a canonical date, and trimmed non-empty category
\* and description.
C1_LoadedExpensesValid ==
  last.op = "load" =>
    \A i \in 1..Len(ret) :
      /\ ret[i].amount.k = "fin" /\ ~ret[i].amount.neg /\ ret[i].amount.n > 0
      /\ IsCanonicalDate(ret[i].date)
      /\ IsTrimmedText(ret[i].category)
      /\ IsTrimmedText(ret[i].description)

\* C2: load_expenses right after save_expenses(es, path) on the same path
\* returns es, for every sequence es of valid expenses.
C2_RoundTrip ==
  (last.op = "load" /\ last.saved.some) => ret = last.saved.v

C2_Witness ==
  /\ last.op = "load" /\ last.saved.some
  /\ Len(ret) = 2
  /\ ret[1] # ret[2]
  /\ NeedsQuote(ret[1].description)

\* C3: whatever the store operations did to a file that started missing or
\* empty, once it has content its first row is the canonical header.
C3_CanonicalHeaderFirst ==
  \A p \in Paths :
    HasContent(fs[p]) =>
      /\ reader(fs[p].data)[1] = STANDARD_COLUMNS
      /\ SubSeq(fs[p].data, 1, Len(CanonicalHeaderLine)) = CanonicalHeaderLine

\* C4: load_expenses returns an Expense for a row only if every canonical
\* field has a present, non-blank cell in that row: the rows lacking one add
\* nothing to the result.
C4_OnlyCompleteRows ==
  last.op = "load" =>
    LET rows == reader(fs[last.path].data)
    IN  rows # <<>> /\ rows[1] # <<>> =>
          ret = CleanRows(rows[1],
                          SelectSeq(Tail(rows), LAMBDA r : AllFieldsPresent(rows[1], r)))

\* C5: when no column of the header standardises to description,
\* load_expenses returns nothing.
C5_NoDescriptionColumn ==
  last.op = "load" =>
    LET rows == reader(fs[last.path].data)
    IN  (rows # <<>> /\ BackingColumn(rows[1], DescriptionCol) = 0) => ret = <<>>

\* C6: a load never changes a file that has content nor any other file; on a
\* missing or empty file it leaves just the canonical header and returns
\* nothing; a load repeated on the same path returns the same and changes
\* nothing.
C6_LoadFrame ==
  [][last'.op = "load" =>
       /\ \A q \in Paths \ {last'.path} : fs'[q] = fs[q]
       /\ HasContent(fs[last'.path]) => fs'[last'.path] = fs[last'.path]
       /\ ~HasContent(fs[last'.path]) =>
            fs'[last'.path] = File(CanonicalHeaderLine) /\ ret' = <<>>
       /\ (last.op = "load" /\ last.path = last'.path) => (ret' = ret /\ fs' = fs)]_vars

C6_Witness ==
  /\ last.op = "load"
  /\ ~last.pre.exists
  /\ fs[last.path] = File(CanonicalHeaderLine)
  /\ ret = <<>>

\* C7: after export_clean_copy the target holds the canonical header and one
\* canonical row per valid row of the source, in order, and nothing else; a
\* source with content that is not the target is unchanged.
C7_ExportCleanCopy ==
  last.op = "export" =>
    /\ fs[last.target] =
         File(CanonicalHeaderLine \o ExpenseRows(ValidExpensesOf(last.pre)))
    /\ (last.target # last.path /\ HasContent(last.pre)) => fs[last.path] = last.pre

\* Digits with at most one point and an optional sign
NumericText(v) ==
  LET s    == Strip(v)
      body == IF s # <<>> /\ s[1] \in {"+", "-"} THEN Tail(s) ELSE s
      p    == Split(body, ".")
  IN  /\ Len(p) \in {1, 2}
      /\ \A i \in 1..Len(p) : AllDigits(p[i])
      /\ \E i \in 1..Len(p) : p[i] # <<>>

\* A numeric text above zero: no minus sign, some digit other than 0
PositiveText(v) ==
  /\ NumericText(v)
  /\ Strip(v)[1] # "-"
  /\ \E i \in 1..Len(v) : IsDigit(v[i]) /\ v[i] # "0"

\* C8: the amount parser returns a value exactly for the texts that, without
\* whitespace, $ and commas, denote a finite number above zero; nan, inf,
\* words, the empty text, zero and negatives give no value; $1,234.5 gives
\* 1234.50.
C8_AmountParser ==
  last.op = "_parse_amount" =>
    LET v == Remove(Remove(Strip(arg), "$"), ",")
    IN  /\ out.some <=> (v # <<>> /\ PositiveText(v))
        /\ out.some => out.v.k = "fin"
        /\ arg = <<"$", "1", ",", "2", "3", "4", ".", "5">> => out = Some(Float("fin", FALSE, 123450, 2))

\* C9: A/B/YYYY is read as day A of month B whenever that is a date, and as
\* month A, day B only when it is not; YYYY-M-D is read as written; every
\* result is canonical; empty, blank and unparseable texts give no value.
C9_DateParser ==
  last.op = "_parse_date" =>
    LET v  == Strip(arg)
        sl == Split(v, "/")
        da == Split(v, "-")
        y  == IntOf(sl[3])
        a  == IntOf(sl[1])
        b  == IntOf(sl[2])
    IN  /\ out.some => IsCanonicalDate(out.v)
        /\ v = <<>> => ~out.some
        /\ SlashForm(sl) =>
             IF ValidDate(y, b, a) THEN out = Some(strftime(y, b, a))
             ELSE IF ValidDate(y, a, b) THEN out = Some(strftime(y, a, b))
             ELSE ~out.some
        /\ DashForm(da) =>
             IF ValidDate(IntOf(da[1]), IntOf(da[2]), IntOf(da[3]))
             THEN out = Some(strftime(IntOf(da[1]), IntOf(da[2]), IntOf(da[3])))
             ELSE ~out.some
        /\ (ThreeRuns(sl) /\ ~SlashForm(sl)) => ~out.some
        /\ (ThreeRuns(da) /\ ~DashForm(da)) => ~out.some

C9_Witness ==
  /\ last.op = "_parse_date"
  /\ arg = <<"0", "3", "/", "0", "4", "/", "2", "0", "2", "4">>
  /\ out = Some(<<"2", "0", "2", "4", "-", "0", "4", "-", "0", "3">>)

\* The header line of a file's text, when it has one
HeaderNames(f) ==
  LET k == CHOOSE i \in 1..Len(f.data) : f.data[i] = "\n" /\ \A j \in 1..(i - 1) : f.data[j] # "\n"
  IN  Split(SubSeq(f.data, 1, k - 1), ",")

AfterHeader(f) ==
  LET k == CHOOSE i \in 1..Len(f.data) : f.data[i] = "\n" /\ \A j \in 1..(i - 1) : f.data[j] # "\n"
  IN  SubSeq(f.data, k + 1, Len(f.data))

\* Txn Date,Debit,Type,Merchant in any letter case, spaces around the names
SynonymHeader(f) ==
  /\ \E i \in 1..Len(f.data) : f.data[i] = "\n"
  /\ Len(HeaderNames(f)) = 4
  /\ Lower(Strip(HeaderNames(f)[1])) = <<"t", "x", "n", " ", "d", "a", "t", "e">>
  /\ Lower(Strip(HeaderNames(f)[2])) = <<"d", "e", "b", "i", "t">>
  /\ Lower(Strip(HeaderNames(f)[3])) = <<"t", "y", "p", "e">>
  /\ Lower(Strip(HeaderNames(f)[4])) = <<"m", "e", "r", "c", "h", "a", "n", "t">>

\* C10: a file headed Txn Date,Debit,Type,Merchant loads to the same expenses
\* as the file with the header date,amount,category,description and the same
\* data lines.
C10_HeaderSynonyms ==
  (last.op = "load" /\ SynonymHeader(fs[last.path])) =>
    ret = Cleaned(<<"d", "a", "t", "e", ",", "a", "m", "o", "u", "n", "t", ",", "c", "a", "t", "e", "g", "o", "r", "y", ",", "d", "e", "s", "c", "r", "i", "p", "t", "i", "o", "n", "\n">> \o AfterHeader(fs[last.path]))

C10_Witness ==
  /\ last.op = "load" /\ SynonymHeader(fs[last.path])
  /\ HeaderNames(fs[last.path])[1] # <<"T", "x", "n", " ", "D", "a", "t", "e">>
  /\ Len(ret) = 1
  /\ Len(reader(fs[last.path].data)) = 3

====
